---- MODULE Spec2Model ----
(***************************************************************************)
(* Model of hello_triangle_application (main.cpp): the presentation loop   *)
(* (main_loop / draw_frame / cleanup) running against the GPU queues, and  *)
(* the physical-device selector (pick_physical_device).                    *)
(***************************************************************************)
EXTENDS Integers, Sequences, FiniteSets, TLC

\* ------------------------------------------------------------------------
\* Bounds of the model
\* ------------------------------------------------------------------------
MaxFrames == 4      \* logical frames drawn before the window is closed
MaxImages == 3      \* largest swapchain image count explored
MaxDevices == 3     \* longest list of enumerated physical devices

\* ------------------------------------------------------------------------
\* Program constants
\* ------------------------------------------------------------------------
MAX_FRAMES_IN_FLIGHT == 2
VK_NULL_HANDLE == -1

Slots == 0 .. (MAX_FRAMES_IN_FLIGHT - 1)

VARIABLES
    \* ---- presentation loop: CPU side (class members and locals) ----
    pc,                  \* position of the control thread
    current_frame_,      \* size_t current_frame_
    image_index,         \* local of draw_frame
    images_in_flight_,   \* std::vector<VkFence>, a fence is named by its slot
    window_should_close, \* the GLFW close flag
    err,                 \* what() of the exception thrown, "" if none
    \* ---- presentation loop: device side ----
    num_images,          \* swap_chain_images_.size()
    shared_queue,        \* graphics_queue_ and present_queue_ are one queue
    fence_signaled,      \* in_flight_fences_[s] is signaled
    image_avail,         \* image_avaiable_semaphores_[s]
    render_finished,     \* render_finished_semaphores_[s]
    gfx_queue,           \* batches submitted whose fence signal is outstanding
    present_queue,       \* present requests not yet executed
    device_lost,         \* the device has been lost (sticky)
    out_of_date,         \* the surface no longer matches the swapchain (sticky)
    \* ---- presentation loop: history ----
    frame_no,            \* number of the logical frame being drawn
    steps,               \* steps of draw_frame performed in this frame
    submit_count,        \* successful vkQueueSubmit calls
    complete_count,      \* batches whose fence has been signaled
    handed,              \* images handed to the presentation engine
    error_reported,      \* an API call of draw_frame returned an error
    idle_waited,         \* vkDeviceWaitIdle has returned
    \* ---- device selection ----
    devices,             \* what vkEnumeratePhysicalDevices returns
    physical_device_,    \* index into devices, or VK_NULL_HANDLE
    pick_state,          \* "enumerating", "picked" or the what() thrown
    score,               \* uint32_t score of the device rated last
    queue_family_indices,\* what find_queue_families returned, << >> before
    \* ---- swapchain creation ----
    swap_chain_support,  \* what query_swap_chain_support returns
    swap_chain_,         \* the create_info handed to vkCreateSwapchainKHR
    swap_state,          \* "querying", "created" or the what() thrown
    \* ---- main ----
    exit_code,           \* value main returned, -1 while it runs
    diagnostic,          \* what main wrote to std::cerr
    heap_damaged         \* a write behind a vector has hit the heap's records

frame_vars == << pc, current_frame_, image_index, images_in_flight_,
                 window_should_close, err, num_images, shared_queue,
                 fence_signaled, image_avail, render_finished, gfx_queue,
                 present_queue, device_lost, out_of_date, frame_no, steps,
                 submit_count, complete_count, handed, error_reported,
                 idle_waited >>
select_vars == << devices, physical_device_, pick_state, queue_family_indices >>
swap_vars == << swap_chain_support, swap_chain_, swap_state >>
main_vars == << score, exit_code, diagnostic, heap_damaged >>
other_vars == << select_vars, swap_vars, main_vars >>
vars == << frame_vars, other_vars >>

Images == 0 .. (num_images - 1)
\* an index past the end of images_in_flight_ (stands for every such value)
OutOfRange == num_images

\* ------------------------------------------------------------------------
\* create_sync_objects and the state main_loop starts in
\* ------------------------------------------------------------------------
\* Faulty variant: the fences are created without
\* VK_FENCE_CREATE_SIGNALED_BIT
create_sync_objects_Unsignaled ==
    /\ images_in_flight_ = [i \in Images |-> VK_NULL_HANDLE]
    /\ fence_signaled = [s \in Slots |-> FALSE]
    /\ image_avail = [s \in Slots |-> [state |-> "unsignaled", frame |-> -1]]
    /\ render_finished = [s \in Slots |-> [state |-> "unsignaled", frame |-> -1]]

create_sync_objects ==
    /\ images_in_flight_ = [i \in Images |-> VK_NULL_HANDLE]
    /\ fence_signaled = [s \in Slots |-> TRUE]
    /\ image_avail = [s \in Slots |-> [state |-> "unsignaled", frame |-> -1]]
    /\ render_finished = [s \in Slots |-> [state |-> "unsignaled", frame |-> -1]]

\* before create_logical_device, create_swap_chain and create_sync_objects:
\* both queue handles are VK_NULL_HANDLE and every vector is empty
NothingCreated ==
    /\ num_images = 0
    /\ shared_queue = TRUE
    /\ images_in_flight_ = << >>
    /\ fence_signaled = << >>
    /\ image_avail = << >>
    /\ render_finished = << >>

SelectIdle ==
    /\ devices = << >>
    /\ physical_device_ = VK_NULL_HANDLE
    /\ pick_state = "enumerating"
    /\ queue_family_indices = << >>

SwapIdle ==
    /\ swap_chain_support = << >>
    /\ swap_chain_ = << >>
    /\ swap_state = "querying"

MainIdle ==
    /\ score = << >>
    /\ exit_code = -1
    /\ diagnostic = ""
    /\ heap_damaged = FALSE

Init ==
    /\ num_images \in 1 .. MaxImages
    /\ shared_queue \in BOOLEAN
    /\ create_sync_objects
    /\ pc = "loop_check"
    /\ current_frame_ = 0
    /\ image_index = 0
    /\ window_should_close = FALSE
    /\ err = ""
    /\ gfx_queue = << >>
    /\ present_queue = << >>
    /\ device_lost = FALSE
    /\ out_of_date = FALSE
    /\ frame_no = 0
    /\ steps = << >>
    /\ submit_count = 0
    /\ complete_count = 0
    /\ handed = {}
    /\ error_reported = FALSE
    /\ idle_waited = FALSE
    /\ SelectIdle
    /\ SwapIdle
    /\ MainIdle

\* ------------------------------------------------------------------------
\* main_loop
\* ------------------------------------------------------------------------
\* while (!glfwWindowShouldClose(window_))
LoopCheck ==
    /\ pc = "loop_check"
    /\ pc' = IF window_should_close THEN "device_wait_idle" ELSE "poll_events"
    /\ UNCHANGED << current_frame_, image_index, images_in_flight_,
                    window_should_close, err, num_images, shared_queue,
                    fence_signaled, image_avail, render_finished, gfx_queue,
                    present_queue, device_lost, out_of_date, frame_no, steps,
                    submit_count, complete_count, handed, error_reported,
                    idle_waited, other_vars >>

\* glfwPollEvents(): the user may have asked to close the window
PollEvents ==
    /\ pc = "poll_events"
    /\ window_should_close' \in
           IF frame_no + 1 >= MaxFrames THEN {TRUE} ELSE BOOLEAN
    /\ steps' = << >>
    /\ pc' = "wait_slot_fence"
    /\ UNCHANGED << current_frame_, image_index, images_in_flight_, err,
                    num_images, shared_queue, fence_signaled, image_avail,
                    render_finished, gfx_queue, present_queue, device_lost,
                    out_of_date, frame_no, submit_count, complete_count,
                    handed, error_reported, idle_waited, other_vars >>

\* ------------------------------------------------------------------------
\* draw_frame, one action per API call
\* ------------------------------------------------------------------------
\* Faulty variant: draw_frame without the wait on the slot's fence
WaitSlotFenceReturns_NoWait == TRUE

\* vkWaitForFences(in_flight_fences_[current_frame_]); the result is ignored
WaitSlotFenceReturns == fence_signaled[current_frame_] \/ device_lost

\* Faulty variant: the fence is reset right after the slot wait, before the
\* acquisition and the image wait
WaitSlotFence_ResetEarly ==
    /\ pc = "wait_slot_fence"
    /\ WaitSlotFenceReturns
    /\ steps' = steps \o << "wait_slot", "reset" >>
    /\ fence_signaled' = [fence_signaled EXCEPT ![current_frame_] = FALSE]
    /\ error_reported' =
          (error_reported \/ (device_lost /\ ~fence_signaled[current_frame_]))
    /\ pc' = "acquire"
    /\ UNCHANGED << current_frame_, image_index, images_in_flight_,
                    window_should_close, err, num_images, shared_queue,
                    image_avail, render_finished, gfx_queue,
                    present_queue, device_lost, out_of_date, frame_no,
                    submit_count, complete_count, handed, idle_waited,
                    other_vars >>

WaitSlotFence ==
    /\ pc = "wait_slot_fence"
    /\ WaitSlotFenceReturns
    /\ steps' = Append(steps, "wait_slot")
    /\ error_reported' =
          (error_reported \/ (device_lost /\ ~fence_signaled[current_frame_]))
    /\ pc' = "acquire"
    /\ UNCHANGED << current_frame_, image_index, images_in_flight_,
                    window_should_close, err, num_images, shared_queue,
                    fence_signaled, image_avail, render_finished, gfx_queue,
                    present_queue, device_lost, out_of_date, frame_no,
                    submit_count, complete_count, handed, idle_waited,
                    other_vars >>

\* vkAcquireNextImageKHR(..., image_avaiable_semaphores_[current_frame_], ...,
\* &image_index); the result is ignored.  On failure nothing is written to
\* image_index, which is an uninitialized local: any value may be read.
AcquireImage ==
    /\ pc = "acquire"
    /\ IF device_lost \/ out_of_date
       THEN /\ image_index' \in Images \cup {OutOfRange}
            /\ error_reported' = TRUE
            /\ UNCHANGED image_avail
       ELSE /\ image_index' \in Images
            /\ image_avail' = [image_avail EXCEPT ![current_frame_] =
                                  [state |-> "pending", frame |-> frame_no]]
            /\ UNCHANGED error_reported
    /\ steps' = Append(steps, "acquire")
    /\ pc' = "wait_image_fence"
    /\ UNCHANGED << current_frame_, images_in_flight_, window_should_close,
                    err, num_images, shared_queue, fence_signaled,
                    render_finished, gfx_queue, present_queue, device_lost,
                    out_of_date, frame_no, submit_count, complete_count,
                    handed, idle_waited, other_vars >>

\* Faulty variant: draw_frame without the wait on the fence recorded for the image
WaitImageFenceReturns_NoWait == TRUE

\* if (images_in_flight_[image_index] != VK_NULL_HANDLE) vkWaitForFences(...)
WaitImageFenceReturns ==
    IF images_in_flight_[image_index] = VK_NULL_HANDLE
    THEN TRUE
    ELSE fence_signaled[images_in_flight_[image_index]] \/ device_lost

\* lines 1118-1123: the optional wait, then
\* images_in_flight_[image_index] = in_flight_fences_[current_frame_]
WaitImageFence ==
    /\ pc = "wait_image_fence"
    /\ image_index # OutOfRange
    /\ WaitImageFenceReturns
    /\ steps' = steps \o
          (IF images_in_flight_[image_index] # VK_NULL_HANDLE
           THEN << "wait_image" >> ELSE << >>) \o << "record" >>
    /\ error_reported' =
          (error_reported \/
             (IF images_in_flight_[image_index] = VK_NULL_HANDLE THEN FALSE
              ELSE device_lost
                   /\ ~fence_signaled[images_in_flight_[image_index]]))
    /\ images_in_flight_' =
          [images_in_flight_ EXCEPT ![image_index] = current_frame_]
    /\ pc' = "reset_fence"
    /\ UNCHANGED << current_frame_, image_index, window_should_close, err,
                    num_images, shared_queue, fence_signaled, image_avail,
                    render_finished, gfx_queue, present_queue, device_lost,
                    out_of_date, frame_no, submit_count, complete_count,
                    handed, idle_waited, other_vars >>

\* images_in_flight_[image_index] with a garbage index outside the vector is
\* undefined: the access faults (BadIndexCrash), or memory behind the vector
\* is read and written and draw_frame goes on (BadIndexGoesOn)
BadIndexCrash ==
    /\ pc = "wait_image_fence"
    /\ image_index = OutOfRange
    /\ pc' = "crashed"
    /\ UNCHANGED << current_frame_, image_index, images_in_flight_,
                    window_should_close, err, num_images, shared_queue,
                    fence_signaled, image_avail, render_finished, gfx_queue,
                    present_queue, device_lost, out_of_date, frame_no, steps,
                    submit_count, complete_count, handed, error_reported,
                    idle_waited, other_vars >>

\* the value read behind the vector is VK_NULL_HANDLE or not, so the wait is
\* skipped or made on whatever was read; the assignment lands outside
\* images_in_flight_, in unused memory or in the records of the heap
BadIndexGoesOn ==
    /\ pc = "wait_image_fence"
    /\ image_index = OutOfRange
    /\ \E read_null \in BOOLEAN :
          steps' = steps \o
             (IF read_null THEN << >> ELSE << "wait_image" >>) \o << "record" >>
    /\ heap_damaged' \in BOOLEAN
    /\ pc' = "reset_fence"
    /\ UNCHANGED << current_frame_, image_index, images_in_flight_,
                    window_should_close, err, num_images, shared_queue,
                    fence_signaled, image_avail, render_finished, gfx_queue,
                    present_queue, device_lost, out_of_date, frame_no,
                    submit_count, complete_count, handed, error_reported,
                    idle_waited, select_vars, swap_vars, score, exit_code,
                    diagnostic >>

\* with the records of the heap damaged, the process is killed (SIGABRT or
\* SIGSEGV) where memory is next allocated or freed: in the throw of
\* draw_frame before anything is printed, in cleanup, or in the destructor
\* of the application object when main returns
KilledOnDamagedHeap ==
    /\ heap_damaged
    /\ pc \in {"failed", "cleanup", "done"}
    /\ pc' = "crashed"
    /\ UNCHANGED << current_frame_, image_index, images_in_flight_,
                    window_should_close, err, num_images, shared_queue,
                    fence_signaled, image_avail, render_finished, gfx_queue,
                    present_queue, device_lost, out_of_date, frame_no, steps,
                    submit_count, complete_count, handed, error_reported,
                    idle_waited, other_vars >>

\* vkResetFences(in_flight_fences_[current_frame_])
ResetFence ==
    /\ pc = "reset_fence"
    /\ fence_signaled' = [fence_signaled EXCEPT ![current_frame_] = FALSE]
    /\ steps' = Append(steps, "reset")
    /\ pc' = "submit"
    /\ UNCHANGED << current_frame_, image_index, images_in_flight_,
                    window_should_close, err, num_images, shared_queue,
                    image_avail, render_finished, gfx_queue, present_queue,
                    device_lost, out_of_date, frame_no, submit_count,
                    complete_count, handed, error_reported, idle_waited,
                    other_vars >>

\* Faulty variant: submit_info.waitSemaphoreCount = 0
Batch_NoWaitSemaphore ==
    [frame |-> frame_no, slot |-> current_frame_, image |-> image_index,
     wait_count |-> 0, wait_sem |-> current_frame_,
     signal_sem |-> current_frame_, stage |-> "queued", avail_by |-> -1]

\* the batch built in submit_info: waits on image_avaiable_semaphores_[slot]
\* at COLOR_ATTACHMENT_OUTPUT, signals render_finished_semaphores_[slot] and
\* in_flight_fences_[slot]
Batch ==
    [frame |-> frame_no, slot |-> current_frame_, image |-> image_index,
     wait_count |-> 1, wait_sem |-> current_frame_,
     signal_sem |-> current_frame_, stage |-> "queued", avail_by |-> -1]

\* if (vkQueueSubmit(...) != VK_SUCCESS) throw
QueueSubmit ==
    /\ pc = "submit"
    /\ steps' = Append(steps, "submit")
    /\ IF device_lost
       THEN /\ pc' = "failed"
            /\ err' = "Failed to submit draw command buffer!"
            /\ error_reported' = TRUE
            /\ UNCHANGED << gfx_queue, submit_count >>
       ELSE /\ pc' = "present"
            /\ gfx_queue' = Append(gfx_queue, Batch)
            /\ submit_count' = submit_count + 1
            /\ UNCHANGED << err, error_reported >>
    /\ UNCHANGED << current_frame_, image_index, images_in_flight_,
                    window_should_close, num_images, shared_queue,
                    fence_signaled, image_avail, render_finished,
                    present_queue, device_lost, out_of_date, frame_no,
                    complete_count, handed, idle_waited, other_vars >>

\* present_info: waits on signal_semaphores, presents image_index
PresentRequest ==
    [frame |-> frame_no, slot |-> current_frame_, image |-> image_index,
     wait_count |-> 1, wait_sem |-> current_frame_,
     rejected |-> out_of_date]

\* vkQueuePresentKHR(present_queue_, &present_info); the result is ignored
QueuePresent ==
    /\ pc = "present"
    /\ steps' = Append(steps, "present")
    /\ IF device_lost
       THEN UNCHANGED present_queue
       ELSE present_queue' = Append(present_queue, PresentRequest)
    /\ error_reported' = (error_reported \/ device_lost \/ out_of_date)
    /\ pc' = "queue_wait_idle"
    /\ UNCHANGED << current_frame_, image_index, images_in_flight_,
                    window_should_close, err, num_images, shared_queue,
                    fence_signaled, image_avail, render_finished, gfx_queue,
                    device_lost, out_of_date, frame_no, submit_count,
                    complete_count, handed, idle_waited, other_vars >>

\* Faulty variant: draw_frame without vkQueueWaitIdle(present_queue_)
QueueWaitIdleReturns_NoWait == TRUE

\* vkQueueWaitIdle(present_queue_) returns once the present queue is idle;
\* when both handles name the same queue that includes every batch
QueueWaitIdleReturns ==
    \/ device_lost
    \/ /\ present_queue = << >>
       /\ shared_queue => gfx_queue = << >>

\* Faulty variant: the idle wait also clears the fences recorded for the images
QueueWaitIdle_ClearsMap ==
    /\ pc = "queue_wait_idle"
    /\ QueueWaitIdleReturns
    /\ steps' = steps \o << "queue_idle", "advance" >>
    /\ current_frame_' = (current_frame_ + 1) % MAX_FRAMES_IN_FLIGHT
    /\ frame_no' = frame_no + 1
    /\ pc' = "loop_check"
    /\ images_in_flight_' = [i \in Images |-> VK_NULL_HANDLE]
    /\ UNCHANGED << image_index, window_should_close, err,
                    num_images, shared_queue, fence_signaled, image_avail,
                    render_finished, gfx_queue, present_queue, device_lost,
                    out_of_date, submit_count, complete_count, handed,
                    error_reported, idle_waited, other_vars >>

\* vkQueueWaitIdle(present_queue_);
\* current_frame_ = (current_frame_ + 1) % MAX_FRAMES_IN_FLIGHT
QueueWaitIdle ==
    /\ pc = "queue_wait_idle"
    /\ QueueWaitIdleReturns
    /\ steps' = steps \o << "queue_idle", "advance" >>
    /\ current_frame_' = (current_frame_ + 1) % MAX_FRAMES_IN_FLIGHT
    /\ frame_no' = frame_no + 1
    /\ pc' = "loop_check"
    /\ UNCHANGED << image_index, images_in_flight_, window_should_close, err,
                    num_images, shared_queue, fence_signaled, image_avail,
                    render_finished, gfx_queue, present_queue, device_lost,
                    out_of_date, submit_count, complete_count, handed,
                    error_reported, idle_waited, other_vars >>

\* ------------------------------------------------------------------------
\* leaving main_loop, cleanup
\* ------------------------------------------------------------------------
\* Faulty variant: main_loop returns without vkDeviceWaitIdle
DeviceWaitIdleReturns_NoWait == TRUE

\* vkDeviceWaitIdle(device_)
DeviceWaitIdleReturns ==
    \/ device_lost
    \/ gfx_queue = << >> /\ present_queue = << >>

DeviceWaitIdle ==
    /\ pc = "device_wait_idle"
    /\ DeviceWaitIdleReturns
    /\ idle_waited' = TRUE
    /\ pc' = "cleanup"
    /\ UNCHANGED << current_frame_, image_index, images_in_flight_,
                    window_should_close, err, num_images, shared_queue,
                    fence_signaled, image_avail, render_finished, gfx_queue,
                    present_queue, device_lost, out_of_date, frame_no, steps,
                    submit_count, complete_count, handed, error_reported,
                    other_vars >>

\* cleanup(): destroys the semaphores, the fences, ..., the swapchain
Cleanup ==
    /\ pc = "cleanup"
    /\ pc' = "done"
    /\ UNCHANGED << current_frame_, image_index, images_in_flight_,
                    window_should_close, err, num_images, shared_queue,
                    fence_signaled, image_avail, render_finished, gfx_queue,
                    present_queue, device_lost, out_of_date, frame_no, steps,
                    submit_count, complete_count, handed, error_reported,
                    idle_waited, other_vars >>

\* ------------------------------------------------------------------------
\* The device: what the queues do with the work draw_frame hands them
\* ------------------------------------------------------------------------
InLoop ==
    pc \in {"loop_check", "poll_events", "wait_slot_fence", "acquire",
            "wait_image_fence", "reset_fence", "submit", "present",
            "queue_wait_idle", "device_wait_idle"}

\* the presentation engine signals the semaphore given to the acquisition
AcquireSignal(s) ==
    /\ InLoop /\ ~device_lost
    /\ image_avail[s].state = "pending"
    /\ image_avail' = [image_avail EXCEPT ![s].state = "signaled"]
    /\ UNCHANGED << pc, current_frame_, image_index, images_in_flight_,
                    window_should_close, err, num_images, shared_queue,
                    fence_signaled, render_finished, gfx_queue,
                    present_queue, device_lost, out_of_date, frame_no, steps,
                    submit_count, complete_count, handed, error_reported,
                    idle_waited, other_vars >>

\* batch k passes its semaphore wait: the color-attachment-output stage starts
GpuBegin(k) ==
    /\ InLoop /\ ~device_lost
    /\ k \in 1 .. Len(gfx_queue)
    /\ gfx_queue[k].stage = "queued"
    /\ IF gfx_queue[k].wait_count = 0
       THEN /\ gfx_queue' = [gfx_queue EXCEPT ![k].stage = "rendering"]
            /\ UNCHANGED image_avail
       ELSE /\ image_avail[gfx_queue[k].wait_sem].state = "signaled"
            /\ gfx_queue' = [gfx_queue EXCEPT
                   ![k].stage = "rendering",
                   ![k].avail_by = image_avail[gfx_queue[k].wait_sem].frame]
            /\ image_avail' = [image_avail EXCEPT
                   ![gfx_queue[k].wait_sem].state = "unsignaled"]
    /\ UNCHANGED << pc, current_frame_, image_index, images_in_flight_,
                    window_should_close, err, num_images, shared_queue,
                    fence_signaled, render_finished, present_queue,
                    device_lost, out_of_date, frame_no, steps, submit_count,
                    complete_count, handed, error_reported, idle_waited,
                    other_vars >>

\* batch k finishes rendering and signals its render-finished semaphore;
\* semaphore signals happen in submission order
GpuRenderDone(k) ==
    /\ InLoop /\ ~device_lost
    /\ k \in 1 .. Len(gfx_queue)
    /\ gfx_queue[k].stage = "rendering"
    /\ \A j \in 1 .. (k - 1) : gfx_queue[j].stage = "rendered"
    /\ gfx_queue' = [gfx_queue EXCEPT ![k].stage = "rendered"]
    /\ render_finished' = [render_finished EXCEPT ![gfx_queue[k].signal_sem] =
                              [state |-> "signaled", frame |-> gfx_queue[k].frame]]
    /\ UNCHANGED << pc, current_frame_, image_index, images_in_flight_,
                    window_should_close, err, num_images, shared_queue,
                    fence_signaled, image_avail, present_queue, device_lost,
                    out_of_date, frame_no, steps, submit_count,
                    complete_count, handed, error_reported, idle_waited,
                    other_vars >>

\* the oldest batch signals its fence, after its semaphore
GpuFenceSignal ==
    /\ InLoop /\ ~device_lost
    /\ gfx_queue # << >>
    /\ Head(gfx_queue).stage = "rendered"
    /\ fence_signaled' = [fence_signaled EXCEPT ![Head(gfx_queue).slot] = TRUE]
    /\ gfx_queue' = Tail(gfx_queue)
    /\ complete_count' = complete_count + 1
    /\ UNCHANGED << pc, current_frame_, image_index, images_in_flight_,
                    window_should_close, err, num_images, shared_queue,
                    image_avail, render_finished, present_queue, device_lost,
                    out_of_date, frame_no, steps, submit_count, handed,
                    error_reported, idle_waited, other_vars >>

\* the oldest present request passes its semaphore wait; unless it was
\* rejected the image goes to the presentation engine
PresentExec ==
    /\ InLoop /\ ~device_lost
    /\ present_queue # << >>
    /\ IF Head(present_queue).wait_count = 0
       THEN UNCHANGED render_finished
       ELSE /\ render_finished[Head(present_queue).wait_sem].state = "signaled"
            /\ render_finished' = [render_finished EXCEPT
                   ![Head(present_queue).wait_sem].state = "unsignaled"]
    /\ handed' = IF Head(present_queue).rejected THEN handed
                 ELSE handed \cup
                      {[frame |-> Head(present_queue).frame,
                        image |-> Head(present_queue).image,
                        rendered_by |->
                            IF Head(present_queue).wait_count = 0 THEN -1
                            ELSE render_finished[Head(present_queue).wait_sem].frame]}
    /\ present_queue' = Tail(present_queue)
    /\ UNCHANGED << pc, current_frame_, image_index, images_in_flight_,
                    window_should_close, err, num_images, shared_queue,
                    fence_signaled, image_avail, gfx_queue, device_lost,
                    out_of_date, frame_no, steps, submit_count,
                    complete_count, error_reported, idle_waited,
                    other_vars >>

\* the device is lost: execution stops and outstanding work is abandoned
DeviceLost ==
    /\ InLoop /\ ~device_lost
    /\ device_lost' = TRUE
    /\ gfx_queue' = << >>
    /\ present_queue' = << >>
    /\ UNCHANGED << pc, current_frame_, image_index, images_in_flight_,
                    window_should_close, err, num_images, shared_queue,
                    fence_signaled, image_avail, render_finished,
                    out_of_date, frame_no, steps, submit_count,
                    complete_count, handed, error_reported, idle_waited,
                    other_vars >>

\* the surface changes (a resize): the swapchain is out of date from now on
SurfaceOutOfDate ==
    /\ InLoop /\ ~out_of_date
    /\ out_of_date' = TRUE
    /\ UNCHANGED << pc, current_frame_, image_index, images_in_flight_,
                    window_should_close, err, num_images, shared_queue,
                    fence_signaled, image_avail, render_finished, gfx_queue,
                    present_queue, device_lost, frame_no, steps,
                    submit_count, complete_count, handed, error_reported,
                    idle_waited, other_vars >>

Next ==
    \/ LoopCheck
    \/ PollEvents
    \/ WaitSlotFence
    \/ AcquireImage
    \/ WaitImageFence
    \/ BadIndexCrash
    \/ BadIndexGoesOn
    \/ KilledOnDamagedHeap
    \/ ResetFence
    \/ QueueSubmit
    \/ QueuePresent
    \/ QueueWaitIdle
    \/ DeviceWaitIdle
    \/ Cleanup
    \/ \E s \in Slots : AcquireSignal(s)
    \/ \E k \in 1 .. Len(gfx_queue) : GpuBegin(k)
    \/ \E k \in 1 .. Len(gfx_queue) : GpuRenderDone(k)
    \/ GpuFenceSignal
    \/ PresentExec
    \/ DeviceLost
    \/ SurfaceOutOfDate

Spec == Init /\ [][Next]_vars

\* ========================================================================
\* Properties of the presentation loop
\* ========================================================================
IsPrefix(s, t) == Len(s) <= Len(t) /\ SubSeq(t, 1, Len(s)) = s

\* C1: at most MAX_FRAMES_IN_FLIGHT batches are submitted but not completed:
\* the submission count never exceeds the completion count by more than 2,
\* and at most 2 batches have their fence signal outstanding.
InFlightBounded ==
    /\ submit_count - complete_count <= MAX_FRAMES_IN_FLIGHT
    /\ Len(gfx_queue) <= MAX_FRAMES_IN_FLIGHT
    /\ Cardinality({s \in Slots : ~fence_signaled[s]}) <= MAX_FRAMES_IN_FLIGHT

\* two batches outstanding after more frames than there are slots
InFlightBoundedWitness ==
    /\ Len(gfx_queue) = MAX_FRAMES_IN_FLIGHT
    /\ submit_count - complete_count = MAX_FRAMES_IN_FLIGHT
    /\ frame_no >= MAX_FRAMES_IN_FLIGHT

\* C2: when draw_frame is about to submit work for image i, no batch for
\* image i is outstanding, and no two outstanding batches target one image.
ImageNotShared ==
    /\ pc = "submit" =>
          \A k \in 1 .. Len(gfx_queue) : gfx_queue[k].image # image_index
    /\ \A j, k \in 1 .. Len(gfx_queue) :
          j # k => gfx_queue[j].image # gfx_queue[k].image

\* a frame that had to wait for the image's fence submits while the other
\* slot still has a batch outstanding
ImageNotSharedWitness ==
    /\ pc = "present"
    /\ Len(gfx_queue) = 2
    /\ \E n \in 1 .. Len(steps) : steps[n] = "wait_image"
    /\ ~error_reported

\* the steps the protocol lists, with and without the wait for the image
StepsWithImageWait ==
    << "wait_slot", "acquire", "wait_image", "record", "reset", "submit",
       "present", "advance" >>
StepsNoImageWait ==
    << "wait_slot", "acquire", "record", "reset", "submit", "present",
       "advance" >>
ListedSteps == SelectSeq(steps, LAMBDA x : x # "queue_idle")

\* C3: frame f uses slot f mod MAX_FRAMES_IN_FLIGHT, its steps come in the
\* listed order (so the fence is reset only after both waits), the entry of
\* an image of the swapchain holds the slot's fence once recorded, and the
\* slot index stays in range.
FrameStepOrder ==
    /\ current_frame_ \in Slots
    /\ current_frame_ = frame_no % MAX_FRAMES_IN_FLIGHT
    /\ \/ IsPrefix(ListedSteps, StepsWithImageWait)
       \/ IsPrefix(ListedSteps, StepsNoImageWait)
    /\ pc = "loop_check" /\ frame_no > 0 =>
          ListedSteps \in {StepsWithImageWait, StepsNoImageWait}
    /\ pc \in {"reset_fence", "submit"} /\ image_index \in Images =>
          images_in_flight_[image_index] = current_frame_
    /\ \A k \in 1 .. Len(gfx_queue) :
          gfx_queue[k].slot = gfx_queue[k].frame % MAX_FRAMES_IN_FLIGHT

\* a frame on a reused slot has gone through all the steps, image wait included
FrameStepOrderWitness ==
    /\ pc = "loop_check"
    /\ frame_no > MAX_FRAMES_IN_FLIGHT
    /\ ListedSteps = StepsWithImageWait

\* C4: a batch starts its color-attachment-output stage only on the signal
\* its own frame's acquisition gave the slot's image-available semaphore, and
\* an image is handed over only on the signal its own frame's batch gave the
\* slot's render-finished semaphore.
AcquireRenderPresentOrder ==
    /\ \A k \in 1 .. Len(gfx_queue) :
          gfx_queue[k].stage # "queued" =>
             gfx_queue[k].avail_by = gfx_queue[k].frame
    /\ \A h \in handed : h.rendered_by = h.frame

\* images of both uses of a slot have been handed over
AcquireRenderPresentOrderWitness ==
    /\ \E h \in handed : h.frame >= MAX_FRAMES_IN_FLIGHT
    /\ \E k \in 1 .. Len(gfx_queue) : gfx_queue[k].stage = "rendering"

\* the control thread is inside draw_frame at a call that does not return
CpuSuspended ==
    \/ pc = "wait_slot_fence" /\ ~WaitSlotFenceReturns
    \/ pc = "wait_image_fence" /\ image_index # OutOfRange
                               /\ ~WaitImageFenceReturns
    \/ pc = "queue_wait_idle" /\ ~QueueWaitIdleReturns

\* C5: inside a frame the control thread is suspended only by the two fence
\* waits, never by waiting for a present or for a queue to drain.
SuspendedOnlyByFences ==
    CpuSuspended => pc \in {"wait_slot_fence", "wait_image_fence"}

\* C6: once a step of draw_frame has reported device loss or an out-of-date
\* surface the loop has stopped with a fatal error.
ReportedErrorIsFatal == error_reported => pc = "failed"

ShutdownObserved == pc \in {"device_wait_idle", "cleanup", "done"}
IdleBeforeDestroy ==
    /\ idle_waited
    /\ gfx_queue = << >>
    /\ present_queue = << >>
\* shutdown goes on, or the process is killed during it
NoFrameAfterShutdown ==
    ShutdownObserved =>
       (/\ (ShutdownObserved' \/ pc' = "crashed")
        /\ steps' = steps
        /\ frame_no' = frame_no
        /\ submit_count' = submit_count)

\* C7: no frame is drawn once the loop has seen the close flag, and cleanup
\* runs only after vkDeviceWaitIdle has returned, with no work in flight.
ShutdownThenIdleThenCleanup ==
    /\ [](ShutdownObserved => window_should_close)
    /\ [](pc \in {"cleanup", "done"} => IdleBeforeDestroy)
    /\ [][NoFrameAfterShutdown]_vars

\* cleanup has run after several frames were drawn on a healthy device
ShutdownThenIdleThenCleanupWitness ==
    /\ pc = "done"
    /\ submit_count > MAX_FRAMES_IN_FLIGHT
    /\ ~device_lost


\* ========================================================================
\* Physical-device selection
\* ========================================================================
\* uint32_t values are kept as two 16-bit halves, so that sums wrap at 2^32
HalfWord == 65536
U32(h, l) == [hi |-> h, lo |-> l]
U32Zero == U32(0, 0)
U32Add(a, b) ==
    [hi |-> (a.hi + b.hi + ((a.lo + b.lo) \div HalfWord)) % HalfWord,
     lo |-> (a.lo + b.lo) % HalfWord]
U32Less(a, b) == a.hi < b.hi \/ (a.hi = b.hi /\ a.lo < b.lo)

\* std::optional<uint32_t>
None == [has_value |-> FALSE, value |-> 0]
Some(v) == [has_value |-> TRUE, value |-> v]

\* queue_family_indices::is_complete
is_complete(indices) ==
    indices.graphics_family.has_value /\ indices.present_family.has_value

\* the loop of find_queue_families from family i (0-based) on
RECURSIVE find_queue_families_from(_, _, _)
find_queue_families_from(queue_families, i, indices) ==
    IF i >= Len(queue_families) THEN indices
    ELSE LET qf == queue_families[i + 1]
             seen == [graphics_family |->
                          IF qf.graphics THEN Some(i)
                          ELSE indices.graphics_family,
                      present_family |->
                          IF qf.present THEN Some(i)
                          ELSE indices.present_family]
         IN  IF is_complete(seen) THEN seen
             ELSE find_queue_families_from(queue_families, i + 1, seen)

\* Faulty variant: the present index is taken to be the graphics index
find_queue_families_PresentAsGraphics(device) ==
    LET found == find_queue_families_from(device.queue_families, 0,
                     [graphics_family |-> None, present_family |-> None])
    IN  [found EXCEPT !.present_family = found.graphics_family]

find_queue_families(device) ==
    find_queue_families_from(device.queue_families, 0,
        [graphics_family |-> None, present_family |-> None])

device_extensions == {"VK_KHR_swapchain"}

check_device_extension_support(device) ==
    device_extensions \ device.extensions = {}

\* Faulty variant: is_device_suitable without the swapchain adequacy test
is_device_suitable_NoSwapChainCheck(device) ==
    LET indices == find_queue_families(device)
        extensions_supported == check_device_extension_support(device)
    IN  is_complete(indices) /\ extensions_supported

is_device_suitable(device) ==
    LET indices == find_queue_families(device)
        extensions_supported == check_device_extension_support(device)
        swap_chain_adequate ==
            IF extensions_supported
            THEN device.format_count # 0 /\ device.present_mode_count # 0
            ELSE FALSE
    IN  is_complete(indices) /\ extensions_supported /\ swap_chain_adequate

\* Faulty variant: the score without the 1000 points for a discrete GPU
rate_device_suitability_NoDiscreteBonus(device) ==
    IF ~device.geometryShader THEN U32Zero
    ELSE IF ~is_device_suitable(device) THEN U32Zero
    ELSE device.maxImageDimension2D

\* Faulty variant: the score without the is_device_suitable check
rate_device_suitability_NoSuitableCheck(device) ==
    IF ~device.geometryShader THEN U32Zero
    ELSE U32Add(IF device.deviceType = "DISCRETE_GPU"
                THEN U32(0, 1000) ELSE U32Zero,
                device.maxImageDimension2D)

rate_device_suitability(device) ==
    IF ~device.geometryShader THEN U32Zero
    ELSE IF ~is_device_suitable(device) THEN U32Zero
    ELSE U32Add(IF device.deviceType = "DISCRETE_GPU"
                THEN U32(0, 1000) ELSE U32Zero,
                device.maxImageDimension2D)

\* Faulty variant: an insertion that puts the new entry before the equal keys
MultimapInsert_BeforeEqual(m, e) ==
    LET n == Cardinality({k \in 1 .. Len(m) : U32Less(m[k].score, e.score)})
    IN  SubSeq(m, 1, n) \o << e >> \o SubSeq(m, n + 1, Len(m))

\* std::multimap::insert: ascending keys, a new entry goes after the entries
\* whose key is equal to its own
MultimapInsert(m, e) ==
    LET n == Cardinality({k \in 1 .. Len(m) : ~U32Less(e.score, m[k].score)})
    IN  SubSeq(m, 1, n) \o << e >> \o SubSeq(m, n + 1, Len(m))

\* the multimap after the loop over the first n devices
RECURSIVE Candidates(_, _)
Candidates(devs, n) ==
    IF n = 0 THEN << >>
    ELSE MultimapInsert(Candidates(devs, n - 1),
                        [score |-> rate_device_suitability(devs[n]),
                         device |-> n])

\* what pick_physical_device does to the members: physical_device_ is set,
\* or one of its two exceptions is thrown
pick_physical_device_body ==
    IF Len(devices) = 0
    THEN /\ pick_state' = "Failed to find GPUs with Vulkan support!"
         /\ UNCHANGED physical_device_
    ELSE LET candidates == Candidates(devices, Len(devices))
             rbegin == candidates[Len(candidates)]
         IN  IF U32Less(U32Zero, rbegin.score)
             THEN /\ physical_device_' = rbegin.device
                  /\ pick_state' = "picked"
             ELSE /\ pick_state' = "Failed to find a suitable GPU!"
                  /\ UNCHANGED physical_device_

pick_physical_device ==
    /\ pick_state = "enumerating"
    /\ pick_physical_device_body
    /\ UNCHANGED << devices, queue_family_indices, frame_vars, swap_vars,
                    main_vars >>

\* ---- the devices vkEnumeratePhysicalDevices may report ----
DeviceTypes == {"DISCRETE_GPU", "INTEGRATED_GPU"}
Dimensions ==
    {U32(0, 0), U32(0, 4096), U32(0, 5000), U32(0, 5096), U32(0, 16384),
     U32(65535, 64536)}
GoodFamilies == << [graphics |-> TRUE, present |-> TRUE] >>
UsableDevice(t, d) ==
    [deviceType |-> t, maxImageDimension2D |-> d, geometryShader |-> TRUE,
     queue_families |-> GoodFamilies, extensions |-> device_extensions,
     format_count |-> 1, present_mode_count |-> 1]
UnusableDevices ==
    LET u == UsableDevice("DISCRETE_GPU", U32(0, 16384))
    IN  { [u EXCEPT !.geometryShader = FALSE],
          [u EXCEPT !.queue_families = << >>],
          [u EXCEPT !.queue_families =
                       << [graphics |-> TRUE, present |-> FALSE] >>],
          [u EXCEPT !.extensions = {}],
          [u EXCEPT !.format_count = 0],
          [u EXCEPT !.present_mode_count = 0] }
DeviceProfiles ==
    {UsableDevice(t, d) : t \in DeviceTypes, d \in Dimensions}
        \cup {UsableDevice("CPU", U32(0, 16384))}
        \cup UnusableDevices

\* vkEnumeratePhysicalDevices reports one more device
EnumerateDevice(d) ==
    /\ pick_state = "enumerating"
    /\ Len(devices) < MaxDevices
    /\ devices' = Append(devices, d)
    /\ UNCHANGED << physical_device_, pick_state, queue_family_indices,
                    frame_vars, swap_vars, main_vars >>

InitSelect ==
    /\ NothingCreated
    /\ pc = "init_vulkan"
    /\ current_frame_ = 0
    /\ image_index = 0
    /\ window_should_close = FALSE
    /\ err = ""
    /\ gfx_queue = << >>
    /\ present_queue = << >>
    /\ device_lost = FALSE
    /\ out_of_date = FALSE
    /\ frame_no = 0
    /\ steps = << >>
    /\ submit_count = 0
    /\ complete_count = 0
    /\ handed = {}
    /\ error_reported = FALSE
    /\ idle_waited = FALSE
    /\ SelectIdle
    /\ SwapIdle
    /\ MainIdle

NextSelect ==
    \/ \E d \in DeviceProfiles : EnumerateDevice(d)
    \/ pick_physical_device

SpecSelect == InitSelect /\ [][NextSelect]_vars

\* ========================================================================
\* Properties of the device selection
\* ========================================================================
Eligible(d) == d.geometryShader /\ is_device_suitable(d)
Picked == pick_state = "picked"
Selected == devices[physical_device_]
DeviceIndexes == 1 .. Len(devices)

\* the score the selection algorithm is specified to give an eligible device
SpecifiedScore(d) ==
    IF d.deviceType = "DISCRETE_GPU"
    THEN U32Add(d.maxImageDimension2D, U32(0, 1000))
    ELSE d.maxImageDimension2D

HasDiscreteAndIntegrated ==
    /\ \E i \in DeviceIndexes :
          Eligible(devices[i]) /\ devices[i].deviceType = "DISCRETE_GPU"
    /\ \E i \in DeviceIndexes :
          Eligible(devices[i]) /\ devices[i].deviceType = "INTEGRATED_GPU"

\* C8 as stated: with an eligible discrete and an eligible integrated device
\* in the list, whatever their sizes, a discrete device is selected.
DiscreteAlwaysPreferred ==
    pick_state # "enumerating" /\ HasDiscreteAndIntegrated =>
       Picked /\ Selected.deviceType = "DISCRETE_GPU"

\* some eligible discrete device outscores every eligible non-discrete one
DiscreteScoreDominates ==
    \E i \in DeviceIndexes :
       /\ Eligible(devices[i])
       /\ devices[i].deviceType = "DISCRETE_GPU"
       /\ \A j \in DeviceIndexes :
             Eligible(devices[j]) /\ devices[j].deviceType # "DISCRETE_GPU" =>
                U32Less(SpecifiedScore(devices[j]), SpecifiedScore(devices[i]))

\* C8 amended: a discrete device is selected when, in addition, some eligible
\* discrete device's score (size + 1000, modulo 2^32) is greater than the
\* size of every eligible non-discrete device.
DiscretePreferredWhenScoreDominates ==
    pick_state # "enumerating" /\ HasDiscreteAndIntegrated
                               /\ DiscreteScoreDominates =>
       Picked /\ Selected.deviceType = "DISCRETE_GPU"

\* a discrete device won against an integrated device of a larger size
DiscretePreferredWitness ==
    /\ Picked
    /\ HasDiscreteAndIntegrated
    /\ Selected.deviceType = "DISCRETE_GPU"
    /\ \E j \in DeviceIndexes :
          /\ Eligible(devices[j])
          /\ devices[j].deviceType = "INTEGRATED_GPU"
          /\ U32Less(Selected.maxImageDimension2D,
                     devices[j].maxImageDimension2D)

\* the candidates that share the maximum score
BestScore(i) ==
    \A j \in DeviceIndexes :
       ~U32Less(rate_device_suitability(devices[i]),
                rate_device_suitability(devices[j]))
BestDevices == {i \in DeviceIndexes : BestScore(i)}

\* C9 as stated: among the candidates with the maximum score the first in
\* enumeration order is selected.
TieFirstWins ==
    Picked => \A i \in BestDevices : physical_device_ <= i

\* C9 amended: among the candidates with the maximum score the last in
\* enumeration order is selected.
TieLastWins ==
    Picked => physical_device_ \in BestDevices
              /\ \A i \in BestDevices : i <= physical_device_

\* a tie between two candidates, followed by a lower-scoring one
TieLastWinsWitness ==
    /\ Picked
    /\ Cardinality(BestDevices) >= 2
    /\ Len(devices) \notin BestDevices
    /\ \E i \in BestDevices : i < physical_device_

NoSuitableDeviceErrors ==
    {"Failed to find GPUs with Vulkan support!",
     "Failed to find a suitable GPU!"}

\* C10: when no device of the list is eligible (the empty list included)
\* pick_physical_device throws and physical_device_ stays VK_NULL_HANDLE.
NoEligibleDeviceFails ==
    pick_state # "enumerating"
       /\ (\A i \in DeviceIndexes : ~Eligible(devices[i])) =>
          /\ pick_state \in NoSuitableDeviceErrors
          /\ physical_device_ = VK_NULL_HANDLE

\* a list of several devices, none eligible, was rejected
NoEligibleDeviceFailsWitness ==
    /\ pick_state = "Failed to find a suitable GPU!"
    /\ Len(devices) >= 2
    /\ \A i \in DeviceIndexes : ~Eligible(devices[i])
    /\ \E i \in DeviceIndexes : ~devices[i].geometryShader
    /\ \E i \in DeviceIndexes : devices[i].geometryShader


\* C11: every eligible device scores more than 0, so that the selection
\* succeeds and returns an eligible device whenever one is in the list.
EligibleScoresPositive ==
    /\ \A i \in DeviceIndexes :
          Eligible(devices[i]) =>
             U32Less(U32Zero, rate_device_suitability(devices[i]))
    /\ pick_state # "enumerating"
          /\ (\E i \in DeviceIndexes : Eligible(devices[i])) =>
             Picked /\ Eligible(Selected)


\* ========================================================================
\* Rating of one device (rate_device_suitability on every kind of device)
\* ========================================================================
MaxFamilies == 2    \* longest list of queue families explored
MaxFormats == 2     \* largest number of surface formats offered
MaxModes == 2       \* largest number of present modes offered

FamilyKinds == [graphics : BOOLEAN, present : BOOLEAN]
FamilyLists == UNION {[1 .. n -> FamilyKinds] : n \in 0 .. MaxFamilies}
ExtensionSets == SUBSET {"VK_KHR_swapchain", "VK_KHR_maintenance1"}
AllDevices ==
    [deviceType : DeviceTypes \cup {"CPU"},
     maxImageDimension2D : Dimensions,
     geometryShader : BOOLEAN,
     queue_families : FamilyLists,
     extensions : ExtensionSets,
     format_count : 0 .. MaxFormats,
     present_mode_count : 0 .. MaxModes]

InitRate ==
    /\ NothingCreated
    /\ pc = "init_vulkan"
    /\ current_frame_ = 0
    /\ image_index = 0
    /\ window_should_close = FALSE
    /\ err = ""
    /\ gfx_queue = << >>
    /\ present_queue = << >>
    /\ device_lost = FALSE
    /\ out_of_date = FALSE
    /\ frame_no = 0
    /\ steps = << >>
    /\ submit_count = 0
    /\ complete_count = 0
    /\ handed = {}
    /\ error_reported = FALSE
    /\ idle_waited = FALSE
    /\ devices \in {<< d >> : d \in AllDevices}
    /\ physical_device_ = VK_NULL_HANDLE
    /\ pick_state = "enumerating"
    /\ queue_family_indices = << >>
    /\ SwapIdle
    /\ MainIdle

\* uint32_t score = rate_device_suitability(device), for the one device
RateDevice ==
    /\ pick_state = "enumerating"
    /\ score' = rate_device_suitability(devices[1])
    /\ pick_state' = "rated"
    /\ UNCHANGED << devices, physical_device_, queue_family_indices,
                    exit_code, diagnostic, heap_damaged, frame_vars,
                    swap_vars >>

\* queue_family_indices indices = find_queue_families(device)
FindQueueFamilies ==
    /\ queue_family_indices = << >>
    /\ queue_family_indices' = find_queue_families(devices[1])
    /\ UNCHANGED << devices, physical_device_, pick_state, frame_vars,
                    swap_vars, main_vars >>

NextRate == RateDevice \/ FindQueueFamilies

SpecRate == InitRate /\ [][NextRate]_vars

\* eligibility as the selection algorithm is specified
SpecifiedEligible(d) ==
    /\ is_complete(find_queue_families(d))
    /\ device_extensions \subseteq d.extensions
    /\ d.format_count >= 1
    /\ d.present_mode_count >= 1
    /\ d.geometryShader

\* C12: a device passes the code's checks exactly when its queue-family
\* assignment is complete, the required extensions are present, it has a
\* surface format and a present mode and supports geometry shaders; an
\* ineligible device scores 0, an eligible one its size plus 1000 if discrete
\* (the sum taken in uint32_t).
RatingFollowsEligibility ==
    pick_state = "rated" =>
       /\ Eligible(devices[1]) <=> SpecifiedEligible(devices[1])
       /\ score = IF SpecifiedEligible(devices[1])
                  THEN SpecifiedScore(devices[1])
                  ELSE U32Zero

\* an eligible discrete device with two queue families got size + 1000
RatingFollowsEligibilityWitness ==
    /\ pick_state = "rated"
    /\ SpecifiedEligible(devices[1])
    /\ devices[1].deviceType = "DISCRETE_GPU"
    /\ Len(devices[1].queue_families) = 2
    /\ devices[1].maxImageDimension2D = U32(0, 4096)
    /\ score = U32(0, 5096)


\* ========================================================================
\* Swap chain negotiation (create_swap_chain and the choose_swap_* functions)
\* ========================================================================
UINT32_MAX == U32(HalfWord - 1, HalfWord - 1)
WIDTH == U32(0, 800)
HEIGHT == U32(0, 600)

\* std::min and std::max on uint32_t
U32Min(a, b) == IF U32Less(b, a) THEN b ELSE a
U32Max(a, b) == IF U32Less(a, b) THEN b ELSE a
U32LessEq(a, b) == ~U32Less(b, a)

PreferredFormat ==
    [format |-> "VK_FORMAT_B8G8R8A8_SRGB",
     colorSpace |-> "VK_COLOR_SPACE_SRGB_NONLINEAR_KHR"]

\* Faulty variant: the color space of an entry is not compared
choose_swap_surface_format_FormatOnly(availableFormats) ==
    LET matches == {i \in 1 .. Len(availableFormats) :
                       availableFormats[i].format = PreferredFormat.format}
    IN  IF matches # {}
        THEN availableFormats[CHOOSE i \in matches :
                                 \A j \in matches : i <= j]
        ELSE availableFormats[1]

\* the first entry of a non-empty list that is the preferred pair, else
\* availableFormats[0]
choose_swap_surface_format(availableFormats) ==
    LET matches == {i \in 1 .. Len(availableFormats) :
                       /\ availableFormats[i].format = PreferredFormat.format
                       /\ availableFormats[i].colorSpace =
                              PreferredFormat.colorSpace}
    IN  IF matches # {}
        THEN availableFormats[CHOOSE i \in matches :
                                 \A j \in matches : i <= j]
        ELSE availableFormats[1]

\* Faulty variant: the first offered mode is taken
choose_swap_present_mode_FirstOffered(availablePresentModes) ==
    IF availablePresentModes # << >>
    THEN availablePresentModes[1]
    ELSE "VK_PRESENT_MODE_FIFO_KHR"

choose_swap_present_mode(availablePresentModes) ==
    IF \E i \in 1 .. Len(availablePresentModes) :
           availablePresentModes[i] = "VK_PRESENT_MODE_MAILBOX_KHR"
    THEN "VK_PRESENT_MODE_MAILBOX_KHR"
    ELSE "VK_PRESENT_MODE_FIFO_KHR"

\* Faulty variant: the default size is not raised to the minimum extent
choose_swap_extent_NoLowerClamp(capabilities) ==
    IF capabilities.currentExtent.width # UINT32_MAX
    THEN capabilities.currentExtent
    ELSE [width |-> U32Min(capabilities.maxImageExtent.width, WIDTH),
          height |-> U32Min(capabilities.maxImageExtent.height, HEIGHT)]

choose_swap_extent(capabilities) ==
    IF capabilities.currentExtent.width # UINT32_MAX
    THEN capabilities.currentExtent
    ELSE [width |-> U32Max(capabilities.minImageExtent.width,
                        U32Min(capabilities.maxImageExtent.width, WIDTH)),
          height |-> U32Max(capabilities.minImageExtent.height,
                         U32Min(capabilities.maxImageExtent.height, HEIGHT))]

\* Faulty variant: the request is not reduced to maxImageCount
image_count_NoUpperLimit(capabilities) ==
    U32Add(capabilities.minImageCount, U32(0, 1))

\* uint32_t image_count of create_swap_chain
image_count(capabilities) ==
    LET requested == U32Add(capabilities.minImageCount, U32(0, 1))
    IN  IF /\ U32Less(U32Zero, capabilities.maxImageCount)
           /\ U32Less(capabilities.maxImageCount, requested)
        THEN capabilities.maxImageCount
        ELSE requested


\* what the driver can report for the surface
FormatEntries ==
    { PreferredFormat,
      [format |-> "VK_FORMAT_B8G8R8A8_UNORM",
       colorSpace |-> "VK_COLOR_SPACE_SRGB_NONLINEAR_KHR"],
      [format |-> "VK_FORMAT_B8G8R8A8_SRGB",
       colorSpace |-> "VK_COLOR_SPACE_EXTENDED_SRGB_LINEAR_EXT"] }
PresentModes ==
    { "VK_PRESENT_MODE_IMMEDIATE_KHR", "VK_PRESENT_MODE_MAILBOX_KHR",
      "VK_PRESENT_MODE_FIFO_KHR" }
FormatLists == UNION {[1 .. n -> FormatEntries] : n \in 0 .. MaxFormats}
PresentModeLists == UNION {[1 .. n -> PresentModes] : n \in 0 .. MaxModes}
CurrentExtents ==
    [width : {WIDTH, UINT32_MAX}, height : {HEIGHT, UINT32_MAX}]
MinExtents == [width : {U32(0, 1), U32(0, 1024)},
               height : {U32(0, 1), U32(0, 768)}]
MaxExtents == [width : {U32(0, 640), U32(0, 4096)}, height : {U32(0, 4096)}]
SurfaceCapabilities ==
    [currentExtent : CurrentExtents,
     minImageExtent : MinExtents,
     maxImageExtent : MaxExtents,
     minImageCount : {U32(0, 2), UINT32_MAX},
     maxImageCount : {U32(0, 0), U32(0, 1), U32(0, 2), U32(0, 4)}]
swap_chain_support_details ==
    [capabilities : SurfaceCapabilities,
     formats : FormatLists,
     present_modes : PresentModeLists]

\* one family for both queues, or one family each
SplitFamilies == << [graphics |-> TRUE, present |-> FALSE],
                    [graphics |-> FALSE, present |-> TRUE] >>
SwapDevices ==
    LET u == UsableDevice("DISCRETE_GPU", U32(0, 16384))
    IN  { u, [u EXCEPT !.queue_families = SplitFamilies] }

\* reading availableFormats[0] of an empty vector is undefined: the process
\* stops, or some value is read
OutOfBoundsRead == [format |-> "none", colorSpace |-> "none"]
SurfaceFormatOutcomes(availableFormats) ==
    IF availableFormats = << >>
    THEN FormatEntries \cup {OutOfBoundsRead}
    ELSE {choose_swap_surface_format(availableFormats)}

VkResults == {"VK_SUCCESS", "VK_ERROR_INITIALIZATION_FAILED"}

\* graphics_queue_ and present_queue_ are queue 0 of the two families
SameQueue(device) ==
    LET indices == find_queue_families(device)
    IN  indices.graphics_family = indices.present_family

\* create_logical_device has fetched the queues of the device picked; the
\* swapchain images and the synchronization objects are not created yet
InitSwap ==
    /\ num_images = 0
    /\ images_in_flight_ = << >>
    /\ fence_signaled = << >>
    /\ image_avail = << >>
    /\ render_finished = << >>
    /\ pc = "init_vulkan"
    /\ current_frame_ = 0
    /\ image_index = 0
    /\ window_should_close = FALSE
    /\ err = ""
    /\ gfx_queue = << >>
    /\ present_queue = << >>
    /\ device_lost = FALSE
    /\ out_of_date = FALSE
    /\ frame_no = 0
    /\ steps = << >>
    /\ submit_count = 0
    /\ complete_count = 0
    /\ handed = {}
    /\ error_reported = FALSE
    /\ idle_waited = FALSE
    /\ devices \in {<< d >> : d \in SwapDevices}
    /\ shared_queue = SameQueue(devices[1])
    /\ physical_device_ = 1
    /\ pick_state = "picked"
    /\ queue_family_indices = << >>
    /\ swap_chain_support \in swap_chain_support_details
    /\ swap_chain_ = << >>
    /\ swap_state = "querying"
    /\ MainIdle

\* uint32_t as a number
U32Value(x) == x.hi * HalfWord + x.lo

\* vkGetSwapchainImagesKHR: the driver creates at least the number of images
\* asked for in create_info.minImageCount, and may create more
DriverImageCounts(requested) ==
    IF requested >= MaxImages THEN {requested} ELSE requested .. MaxImages

\* what create_swap_chain does to the members: swap_chain_ (with the format
\* and the extent kept in swap_chain_image_format_ and swap_chain_extent_)
\* and the size of swap_chain_images_, or its exception is thrown
create_swap_chain_body ==
    \E surface_format \in SurfaceFormatOutcomes(swap_chain_support.formats),
          result \in VkResults :
          LET present_mode ==
                  choose_swap_present_mode(swap_chain_support.present_modes)
              extent == choose_swap_extent(swap_chain_support.capabilities)
              indices == find_queue_families(devices[physical_device_])
              create_info ==
                  [minImageCount |->
                       image_count(swap_chain_support.capabilities),
                   imageFormat |-> surface_format.format,
                   imageColorSpace |-> surface_format.colorSpace,
                   imageExtent |-> extent,
                   imageSharingMode |->
                       IF indices.graphics_family # indices.present_family
                       THEN "VK_SHARING_MODE_CONCURRENT"
                       ELSE "VK_SHARING_MODE_EXCLUSIVE",
                   presentMode |-> present_mode]
          IN  IF surface_format = OutOfBoundsRead
              THEN /\ swap_state' = "crashed"
                   /\ UNCHANGED << swap_chain_, num_images >>
              ELSE IF result # "VK_SUCCESS"
              THEN /\ swap_state' = "Failed to create swap chain!"
                   /\ UNCHANGED << swap_chain_, num_images >>
              ELSE /\ swap_state' = "created"
                   /\ swap_chain_' = create_info
                   /\ num_images' \in
                          DriverImageCounts(U32Value(create_info.minImageCount))

create_swap_chain ==
    /\ swap_state = "querying"
    /\ pick_state = "picked"
    /\ create_swap_chain_body
    /\ UNCHANGED << pc, current_frame_, image_index, images_in_flight_,
                    window_should_close, err, shared_queue, fence_signaled,
                    image_avail, render_finished, gfx_queue, present_queue,
                    device_lost, out_of_date, frame_no, steps, submit_count,
                    complete_count, handed, error_reported, idle_waited,
                    swap_chain_support, select_vars, main_vars >>

NextSwap == create_swap_chain

SpecSwap == InitSwap /\ [][NextSwap]_vars


Created == swap_state = "created"
Capabilities == swap_chain_support.capabilities
U32Within(lo, x, hi) == U32LessEq(lo, x) /\ U32LessEq(x, hi)
ExtentWithin(e, caps) ==
    /\ U32Within(caps.minImageExtent.width, e.width, caps.maxImageExtent.width)
    /\ U32Within(caps.minImageExtent.height, e.height,
                 caps.maxImageExtent.height)
ClientDecides == Capabilities.currentExtent.width = UINT32_MAX

\* C13 as stated: the extent of the created swapchain lies within
\* [minImageExtent, maxImageExtent] on both axes, for every snapshot.
ExtentAlwaysWithinBounds ==
    Created => ExtentWithin(swap_chain_.imageExtent, Capabilities)

\* C13: when the width of the current extent is the 'client decides' value the
\* extent is 800x600 clamped, and lies within [min, max] on each axis where
\* min <= max; otherwise it is the current extent unchanged, so it is within
\* the bounds exactly when the reported current extent is.
ExtentClampedOrVerbatim ==
    Created =>
       LET e == swap_chain_.imageExtent
           lo == Capabilities.minImageExtent
           hi == Capabilities.maxImageExtent
       IN  IF ClientDecides
           THEN /\ U32LessEq(lo.width, hi.width) =>
                      /\ U32Within(lo.width, e.width, hi.width)
                      /\ U32Within(lo.width, WIDTH, hi.width) =>
                            e.width = WIDTH
                /\ U32LessEq(lo.height, hi.height) =>
                      /\ U32Within(lo.height, e.height, hi.height)
                      /\ U32Within(lo.height, HEIGHT, hi.height) =>
                            e.height = HEIGHT
           ELSE e = Capabilities.currentExtent

\* the default width was raised to a minimum extent above it
ExtentClampedOrVerbatimWitness ==
    /\ Created
    /\ ClientDecides
    /\ Capabilities.minImageExtent.width = U32(0, 1024)
    /\ Capabilities.maxImageExtent.width = U32(0, 4096)
    /\ swap_chain_.imageExtent.width = U32(0, 1024)
    /\ swap_chain_.imageExtent.height = HEIGHT

\* C14 as stated: with maxImageCount > 0 the requested image count is at
\* least minImageCount and at most maxImageCount, for every snapshot.
ImageCountAlwaysWithinBounds ==
    Created /\ U32Less(U32Zero, Capabilities.maxImageCount) =>
       U32Within(Capabilities.minImageCount, swap_chain_.minImageCount,
                 Capabilities.maxImageCount)

\* C14: the requested image count is minImageCount + 1 in uint32_t, reduced
\* to maxImageCount when that is nonzero and smaller; with maxImageCount > 0
\* it never exceeds maxImageCount, and it is at least minImageCount when
\* minImageCount <= maxImageCount and minImageCount + 1 does not wrap.
ImageCountRequested ==
    Created =>
       LET n == swap_chain_.minImageCount
           lo == Capabilities.minImageCount
           hi == Capabilities.maxImageCount
           plus_one == U32Add(lo, U32(0, 1))
       IN  /\ n = IF U32Less(U32Zero, hi) /\ U32Less(hi, plus_one)
                  THEN hi ELSE plus_one
           /\ U32Less(U32Zero, hi) => U32LessEq(n, hi)
           /\ U32Less(U32Zero, hi) /\ U32LessEq(lo, hi) /\ lo # UINT32_MAX =>
                 U32LessEq(lo, n)

\* minImageCount = maxImageCount = 2: the request of 3 was reduced to 2
ImageCountRequestedWitness ==
    /\ Created
    /\ Capabilities.minImageCount = U32(0, 2)
    /\ Capabilities.maxImageCount = U32(0, 2)
    /\ swap_chain_.minImageCount = U32(0, 2)


OfferedFormats == swap_chain_support.formats
OfferedModes == swap_chain_support.present_modes
Offered(list) == {list[i] : i \in 1 .. Len(list)}
ChosenFormat ==
    [format |-> swap_chain_.imageFormat,
     colorSpace |-> swap_chain_.imageColorSpace]

\* C15: from a non-empty list of offered formats the swapchain gets the
\* B8G8R8A8_SRGB / SRGB_NONLINEAR pair if it is anywhere in the list and the
\* first entry otherwise; the result is always one of the offered entries.
PreferredFormatElseFirst ==
    Created /\ OfferedFormats # << >> =>
       /\ ChosenFormat = IF PreferredFormat \in Offered(OfferedFormats)
                         THEN PreferredFormat
                         ELSE OfferedFormats[1]
       /\ ChosenFormat \in Offered(OfferedFormats)

\* the preferred pair was found behind an entry with the same format only
PreferredFormatElseFirstWitness ==
    /\ Created
    /\ Len(OfferedFormats) = 2
    /\ OfferedFormats[1].format = PreferredFormat.format
    /\ OfferedFormats[1] # PreferredFormat
    /\ OfferedFormats[2] = PreferredFormat
    /\ ChosenFormat = PreferredFormat

\* C16: the present mode is MAILBOX exactly when MAILBOX is offered, and FIFO
\* otherwise, whatever the list holds.
MailboxElseFifo ==
    Created =>
       /\ swap_chain_.presentMode = "VK_PRESENT_MODE_MAILBOX_KHR" <=>
             "VK_PRESENT_MODE_MAILBOX_KHR" \in Offered(OfferedModes)
       /\ swap_chain_.presentMode # "VK_PRESENT_MODE_MAILBOX_KHR" =>
             swap_chain_.presentMode = "VK_PRESENT_MODE_FIFO_KHR"

\* MAILBOX was taken from behind another mode
MailboxElseFifoWitness ==
    /\ Created
    /\ OfferedModes = << "VK_PRESENT_MODE_IMMEDIATE_KHR",
                         "VK_PRESENT_MODE_MAILBOX_KHR" >>
    /\ swap_chain_.presentMode = "VK_PRESENT_MODE_MAILBOX_KHR"

\* FIFO was taken although only another mode was offered
FifoNotOfferedWitness ==
    /\ Created
    /\ OfferedModes = << "VK_PRESENT_MODE_IMMEDIATE_KHR" >>
    /\ swap_chain_.presentMode = "VK_PRESENT_MODE_FIFO_KHR"

\* C17: with an empty format list or an empty present-mode list in the
\* snapshot, create_swap_chain ends with an error and without a swapchain,
\* and never reads an entry of the empty list.
EmptyListsRejected ==
    swap_state # "querying"
       /\ (OfferedFormats = << >> \/ OfferedModes = << >>) =>
          /\ swap_state \notin {"created", "crashed"}
          /\ swap_chain_ = << >>


\* ========================================================================
\* The fences recorded for the swapchain images (images_in_flight_)
\* ========================================================================
BetweenFrames == pc = "loop_check"
\* slot s has a submission for image i that has not completed
Rendering(s, i) ==
    \E k \in 1 .. Len(gfx_queue) :
        gfx_queue[k].slot = s /\ gfx_queue[k].image = i

\* C18 as stated: between frames the entry of an image is 'none' or the fence
\* of the slot that is rendering into the image; it is 'none' again once the
\* image is idle.
MapNamesCurrentOwner ==
    BetweenFrames =>
       \A i \in Images :
          images_in_flight_[i] # VK_NULL_HANDLE =>
             Rendering(images_in_flight_[i], i)

MapWrittenOnlyOnRecord ==
    \A i \in Images :
       /\ images_in_flight_[i] # VK_NULL_HANDLE =>
             images_in_flight_'[i] # VK_NULL_HANDLE
       /\ images_in_flight_'[i] # images_in_flight_[i] =>
             /\ pc = "wait_image_fence"
             /\ i = image_index
             /\ images_in_flight_'[i] = current_frame_

\* C18: the entry of an image changes only when a frame that acquired the
\* image records the fence of its own slot, and it never goes back to 'none'
\* (so it can name a slot that has since rendered into another image).
MapKeepsLastRecordedFence == [][MapWrittenOnlyOnRecord]_vars

\* between frames, with nothing left on the queues, two images both name
\* slot 0, whose latest submission was for one of them only
MapKeepsLastRecordedFenceWitness ==
    /\ BetweenFrames
    /\ gfx_queue = << >>
    /\ num_images = 3
    /\ images_in_flight_[0] = 0
    /\ images_in_flight_[2] = 0


\* ========================================================================
\* The whole run: main, run, init_vulkan, main_loop, cleanup
\* ========================================================================
EXIT_SUCCESS == 0
EXIT_FAILURE == 1

\* the stages of init_vulkan in the order of their calls
InitStages ==
    << "create_instance", "setup_debug_messenger", "create_surface",
       "pick_physical_device", "create_logical_device", "create_swap_chain",
       "create_image_views", "create_render_pass",
       "create_graphics_pipeline", "create_frame_buffers",
       "create_command_pool", "create_command_buffers",
       "create_sync_objects" >>

\* what() of the exceptions a stage can throw
StageErrors(stage) ==
    CASE stage = "create_instance" ->
             {"validation layers requested, but not available!",
              "Failed to create instance!"}
      [] stage = "setup_debug_messenger" ->
             {"Failed to set up debug messenger!"}
      [] stage = "create_surface" -> {"Failed to create window surface!"}
      [] stage = "pick_physical_device" ->
             {"Failed to find GPUs with Vulkan support!",
              "Failed to find a suitable GPU!"}
      [] stage = "create_logical_device" ->
             {"Failed to create logical device!"}
      [] stage = "create_swap_chain" -> {"Failed to create swap chain!"}
      [] stage = "create_image_views" -> {"Failed to create image views!"}
      [] stage = "create_render_pass" -> {"Failed to create render pass!"}
      [] stage = "create_graphics_pipeline" ->
             {"Failed to open file!", "Failed to create shader module!",
              "Failed to create pipeline layout!",
              "Failed to create graphics pipeline!"}
      [] stage = "create_frame_buffers" -> {"Failed to create framebuffer!"}
      [] stage = "create_command_pool" -> {"Failed to create command pool!"}
      [] stage = "create_command_buffers" ->
             {"Failed to allocate command buffers!",
              "Failed to begin recording command buffer!",
              "Failed to record command buffer!"}
      [] stage = "create_sync_objects" ->
             {"Failed to create synchronization objects for a frame!"}

StageIndexes == 1 .. Len(InitStages)
AllErrors ==
    UNION {StageErrors(InitStages[k]) : k \in StageIndexes}
       \cup {"Failed to submit draw command buffer!"}

\* the machines the program is started on: no device, a device without
\* geometry shaders, a device with one family for both queues, a device with
\* a family for each
RunDevices ==
    LET u == UsableDevice("DISCRETE_GPU", U32(0, 16384))
    IN  { << >>,
          << [u EXCEPT !.geometryShader = FALSE] >>,
          << u >>,
          << [u EXCEPT !.queue_families = SplitFamilies] >> }

\* the surface of the window: 800x600, at least one image, no upper limit
RunSnapshots ==
    { [capabilities |->
           [currentExtent |-> [width |-> WIDTH, height |-> HEIGHT],
            minImageExtent |-> [width |-> U32(0, 1), height |-> U32(0, 1)],
            maxImageExtent |-> [width |-> U32(0, 4096),
                                height |-> U32(0, 4096)],
            minImageCount |-> U32(0, 1),
            maxImageCount |-> U32(0, 0)],
       formats |-> << PreferredFormat >>,
       present_modes |-> << "VK_PRESENT_MODE_FIFO_KHR" >>] }

InitRun ==
    /\ NothingCreated
    /\ pc = InitStages[1]
    /\ current_frame_ = 0
    /\ image_index = 0
    /\ window_should_close = FALSE
    /\ err = ""
    /\ gfx_queue = << >>
    /\ present_queue = << >>
    /\ device_lost = FALSE
    /\ out_of_date = FALSE
    /\ frame_no = 0
    /\ steps = << >>
    /\ submit_count = 0
    /\ complete_count = 0
    /\ handed = {}
    /\ error_reported = FALSE
    /\ idle_waited = FALSE
    /\ devices \in RunDevices
    /\ physical_device_ = VK_NULL_HANDLE
    /\ pick_state = "enumerating"
    /\ queue_family_indices = << >>
    /\ swap_chain_support \in RunSnapshots
    /\ swap_chain_ = << >>
    /\ swap_state = "querying"
    /\ MainIdle

\* the stages whose results the model follows
FollowedStages ==
    {"pick_physical_device", "create_logical_device", "create_swap_chain",
     "create_sync_objects"}

\* a stage that creates objects the model does not follow: it returns, and
\* the next stage follows, or it throws
init_other_stage ==
    /\ \E k \in StageIndexes :
          /\ pc = InitStages[k]
          /\ pc \notin FollowedStages
          /\ \/ /\ pc' = InitStages[k + 1]
                /\ UNCHANGED err
             \/ /\ pc' = "failed"
                /\ err' \in StageErrors(InitStages[k])
    /\ UNCHANGED << current_frame_, image_index, images_in_flight_,
                    window_should_close, num_images, shared_queue,
                    fence_signaled, image_avail, render_finished, gfx_queue,
                    present_queue, device_lost, out_of_date, frame_no, steps,
                    submit_count, complete_count, handed, error_reported,
                    idle_waited, other_vars >>

\* pick_physical_device(); an exception of it leaves init_vulkan
init_pick_physical_device ==
    /\ pc = "pick_physical_device"
    /\ pick_physical_device_body
    /\ IF pick_state' = "picked"
       THEN pc' = "create_logical_device" /\ UNCHANGED err
       ELSE pc' = "failed" /\ err' = pick_state'
    /\ UNCHANGED << current_frame_, image_index, images_in_flight_,
                    window_should_close, num_images, shared_queue,
                    fence_signaled, image_avail, render_finished, gfx_queue,
                    present_queue, device_lost, out_of_date, frame_no, steps,
                    submit_count, complete_count, handed, error_reported,
                    idle_waited, devices, queue_family_indices, swap_vars,
                    main_vars >>

\* create_logical_device(): vkCreateDevice fails, or both queues are fetched
init_create_logical_device ==
    /\ pc = "create_logical_device"
    /\ \/ /\ pc' = "failed"
          /\ err' \in StageErrors("create_logical_device")
          /\ UNCHANGED shared_queue
       \/ /\ pc' = "create_swap_chain"
          /\ shared_queue' = SameQueue(devices[physical_device_])
          /\ UNCHANGED err
    /\ UNCHANGED << current_frame_, image_index, images_in_flight_,
                    window_should_close, num_images, fence_signaled,
                    image_avail, render_finished, gfx_queue, present_queue,
                    device_lost, out_of_date, frame_no, steps, submit_count,
                    complete_count, handed, error_reported, idle_waited,
                    other_vars >>

\* create_swap_chain(); an exception of it leaves init_vulkan
init_create_swap_chain ==
    /\ pc = "create_swap_chain"
    /\ create_swap_chain_body
    /\ IF swap_state' = "created"
       THEN pc' = "create_image_views" /\ UNCHANGED err
       ELSE IF swap_state' = "crashed"
       THEN pc' = "crashed" /\ UNCHANGED err
       ELSE pc' = "failed" /\ err' = swap_state'
    /\ UNCHANGED << current_frame_, image_index, images_in_flight_,
                    window_should_close, shared_queue, fence_signaled,
                    image_avail, render_finished, gfx_queue, present_queue,
                    device_lost, out_of_date, frame_no, steps, submit_count,
                    complete_count, handed, error_reported, idle_waited,
                    swap_chain_support, select_vars, main_vars >>

\* create_sync_objects(): the vectors are resized, then the objects of slot
\* 0, 1, ... are created; a failing call throws with the objects created so
\* far
init_create_sync_objects ==
    /\ pc = "create_sync_objects"
    /\ images_in_flight_' = [i \in Images |-> VK_NULL_HANDLE]
    /\ \/ /\ fence_signaled' = [s \in Slots |-> TRUE]
          /\ image_avail' =
                [s \in Slots |-> [state |-> "unsignaled", frame |-> -1]]
          /\ render_finished' =
                [s \in Slots |-> [state |-> "unsignaled", frame |-> -1]]
          /\ pc' = "loop_check"
          /\ UNCHANGED err
       \/ \E s \in Slots,
             call \in {"image_available", "render_finished", "fence"} :
             /\ fence_signaled' = [t \in 0 .. (s - 1) |-> TRUE]
             /\ image_avail' =
                   [t \in 0 .. (IF call = "image_available" THEN s - 1 ELSE s)
                      |-> [state |-> "unsignaled", frame |-> -1]]
             /\ render_finished' =
                   [t \in 0 .. (IF call = "fence" THEN s ELSE s - 1)
                      |-> [state |-> "unsignaled", frame |-> -1]]
             /\ pc' = "failed"
             /\ err' \in StageErrors("create_sync_objects")
    /\ UNCHANGED << current_frame_, image_index, window_should_close,
                    num_images, shared_queue, gfx_queue, present_queue,
                    device_lost, out_of_date, frame_no, steps, submit_count,
                    complete_count, handed, error_reported, idle_waited,
                    other_vars >>

\* init_vulkan, stage by stage
init_vulkan ==
    \/ init_other_stage
    \/ init_pick_physical_device
    \/ init_create_logical_device
    \/ init_create_swap_chain
    \/ init_create_sync_objects

\* main after app.run(): the catch block, or the return behind it
main ==
    /\ exit_code = -1
    /\ pc \in {"done", "failed"}
    /\ IF pc = "failed"
       THEN diagnostic' = err /\ exit_code' = EXIT_FAILURE
       ELSE diagnostic' = "" /\ exit_code' = EXIT_SUCCESS
    /\ UNCHANGED << score, heap_damaged, frame_vars, select_vars,
                    swap_vars >>

NextRun ==
    \/ init_vulkan
    \/ Next
    \/ main

SpecRun == InitRun /\ [][NextRun]_vars

Failed == pc = "failed"
Exited == exit_code # -1

Killed == pc = "crashed"

\* after a failure nothing of the application runs any more
NothingRunsAfterFailure ==
    Failed =>
       /\ pc' \in {"failed", "crashed"}
       /\ UNCHANGED << current_frame_, image_index, images_in_flight_, err,
                       steps, frame_no, submit_count, gfx_queue,
                       present_queue >>

\* what main returns and prints; a process killed after a failure was raised
\* has a nonzero status too, and should have printed the message
ExitStatusFollowsFailure ==
    /\ Failed => err \in AllErrors
    /\ Exited /\ Failed => exit_code = EXIT_FAILURE /\ diagnostic = err
    /\ Exited /\ pc = "done" => exit_code = EXIT_SUCCESS /\ diagnostic = ""
    /\ Killed /\ err # "" => diagnostic = err

\* C19: a failure thrown by a stage of init_vulkan or by the submission of a
\* frame ends the run: no later stage and no later frame step is executed,
\* the message is printed and the process ends with a nonzero status (main
\* returns EXIT_FAILURE); a run that reaches the end of cleanup returns
\* EXIT_SUCCESS.
FailurePropagatesToMain ==
    [][NothingRunsAfterFailure]_vars /\ []ExitStatusFollowsFailure

\* the same while no write has damaged the heap
FailurePropagatesOnSoundHeap ==
    /\ [][NothingRunsAfterFailure]_vars
    /\ [](~heap_damaged => ExitStatusFollowsFailure)

\* the submission failed and the process was killed before main printed
KilledInThrow ==
    /\ Killed
    /\ err = "Failed to submit draw command buffer!"
    /\ diagnostic = ""
    /\ exit_code = -1

\* main printed the message and returned, and the process was killed in the
\* destructor of the application object
KilledAtReturn ==
    /\ Killed
    /\ diagnostic = "Failed to submit draw command buffer!"
    /\ exit_code = EXIT_FAILURE

\* the submission of the second frame failed and main returned EXIT_FAILURE
FailurePropagatesToMainWitness ==
    /\ Failed
    /\ frame_no = 1
    /\ exit_code = EXIT_FAILURE
    /\ diagnostic = "Failed to submit draw command buffer!"

\* a stage in the middle of init_vulkan failed
InitFailureWitness ==
    /\ Failed
    /\ exit_code = EXIT_FAILURE
    /\ diagnostic = "Failed to create swap chain!"
    /\ submit_count = 0


\* ========================================================================
\* Progress of draw_frame
\* ========================================================================
\* the control thread runs whenever it is not waiting
CpuStep ==
    \/ LoopCheck
    \/ PollEvents
    \/ WaitSlotFence
    \/ AcquireImage
    \/ WaitImageFence
    \/ BadIndexCrash
    \/ BadIndexGoesOn
    \/ KilledOnDamagedHeap
    \/ ResetFence
    \/ QueueSubmit
    \/ QueuePresent
    \/ QueueWaitIdle
    \/ DeviceWaitIdle
    \/ Cleanup

InitFair == Init /\ num_images = 2

\* the device and the presentation engine finish every piece of work that
\* can run; the surface and the device may fail at any time or never
SpecFair ==
    /\ InitFair
    /\ [][Next]_vars
    /\ WF_vars(CpuStep)
    /\ WF_vars(\E s \in Slots : AcquireSignal(s))
    /\ WF_vars(\E k \in 1 .. Len(gfx_queue) : GpuBegin(k))
    /\ WF_vars(\E k \in 1 .. Len(gfx_queue) : GpuRenderDone(k))
    /\ WF_vars(GpuFenceSignal)
    /\ WF_vars(PresentExec)

InDrawFrame ==
    pc \in {"wait_slot_fence", "acquire", "wait_image_fence", "reset_fence",
            "submit", "present", "queue_wait_idle"}

\* every call of draw_frame returns (or throws): the control thread does not
\* stay in it forever
DrawFrameReturns == InDrawFrame ~> ~InDrawFrame

\* while the program runs, the device finishes every batch submitted to the
\* graphics queue and every present request: a queue is empty again and
\* again, or its oldest entry is finished again and again
EveryBatchCompletes ==
    \/ []<>(gfx_queue = << >> \/ ~InLoop)
    \/ []<><<GpuFenceSignal>>_vars
EveryPresentCompletes ==
    \/ []<>(present_queue = << >> \/ ~InLoop)
    \/ []<><<PresentExec>>_vars
EverySubmittedWorkCompletes == EveryBatchCompletes /\ EveryPresentCompletes

\* in_flight_fences_[s] is signaled or a queued batch will signal it
FenceWillBeSignaled(s) ==
    \/ fence_signaled[s]
    \/ \E k \in 1 .. Len(gfx_queue) : gfx_queue[k].slot = s

\* the fence of the current slot, and the fence recorded for the acquired
\* image when there is one, as vkWaitForFences of draw_frame finds them
WaitedFenceHasSignaler ==
    IF device_lost THEN TRUE
    ELSE IF pc = "wait_slot_fence" THEN FenceWillBeSignaled(current_frame_)
    ELSE IF pc = "wait_image_fence" /\ image_index \in Images
         THEN IF images_in_flight_[image_index] = VK_NULL_HANDLE THEN TRUE
              ELSE FenceWillBeSignaled(images_in_flight_[image_index])
    ELSE TRUE

\* C20: if the device finishes every piece of work submitted to it, every
\* call of draw_frame returns, and on a working device the control thread
\* never waits on a fence that is unsignaled with no queued batch to signal
\* it: not on the first use of a slot, and not when the fence recorded for
\* the acquired image is the fence of the current slot.
DrawFrameReturnsWhenWorkCompletes ==
    /\ []WaitedFenceHasSignaler
    /\ EverySubmittedWorkCompletes => DrawFrameReturns

\* on a working device and a valid surface, the fence recorded for the
\* acquired image is the one of the current slot, on the slot's second use
DrawFrameReturnsWhenWorkCompletesWitness ==
    /\ pc = "wait_image_fence"
    /\ ~device_lost /\ ~out_of_date
    /\ image_index \in Images
    /\ images_in_flight_[image_index] = current_frame_
    /\ frame_no >= MAX_FRAMES_IN_FLIGHT


\* ========================================================================
\* Pairing of semaphore signals and waits
\* ========================================================================
BatchIndexes == 1 .. Len(gfx_queue)
PresentIndexes == 1 .. Len(present_queue)
\* batch k has not passed its wait on image_avaiable_semaphores_[s]
AwaitsImageAvailable(k, s) ==
    /\ gfx_queue[k].wait_count > 0
    /\ gfx_queue[k].wait_sem = s
    /\ gfx_queue[k].stage = "queued"
\* batch k has not signaled render_finished_semaphores_[s] yet
WillSignalRenderFinished(k, s) ==
    /\ gfx_queue[k].signal_sem = s
    /\ gfx_queue[k].stage \in {"queued", "rendering"}
\* present request p has not passed its wait on render_finished_semaphores_[s]
AwaitsRenderFinished(p, s) ==
    /\ present_queue[p].wait_count > 0
    /\ present_queue[p].wait_sem = s

\* the semaphore handed to vkAcquireNextImageKHR carries no signal, pending
\* or unconsumed, and an outstanding signal has at most its own frame's batch
\* waiting for it
ImageAvailablePaired ==
    /\ pc = "acquire" => image_avail[current_frame_].state = "unsignaled"
    /\ \A s \in Slots :
          image_avail[s].state # "unsignaled" =>
             \A k \in BatchIndexes :
                AwaitsImageAvailable(k, s) =>
                   gfx_queue[k].frame = image_avail[s].frame

\* at vkQueueSubmit no present request waits on the semaphore the batch will
\* signal, and until the batch signals it the semaphore is unsignaled and
\* only the present request of the batch's own frame waits on it
RenderFinishedPaired ==
    /\ pc = "submit" =>
          /\ render_finished[current_frame_].state = "unsignaled"
          /\ \A p \in PresentIndexes : ~AwaitsRenderFinished(p, current_frame_)
    /\ \A k \in BatchIndexes : \A s \in Slots :
          WillSignalRenderFinished(k, s) =>
             /\ render_finished[s].state = "unsignaled"
             /\ \A p \in PresentIndexes :
                   AwaitsRenderFinished(p, s) =>
                      present_queue[p].frame = gfx_queue[k].frame

\* C21: a slot's image-available semaphore is handed to an acquisition only
\* when it holds no signal that the slot's submission has not consumed, and a
\* slot's render-finished semaphore is signaled by a submission only when no
\* presentation of an earlier frame still waits on it.
SemaphoresPaired == ImageAvailablePaired /\ RenderFinishedPaired

\* slot 0 is in its second use: its semaphore was handed to the acquisition
\* of frame 2, whose signal is outstanding, and the batch is about to be
\* submitted
SemaphoresPairedWitness ==
    /\ frame_no = 2
    /\ current_frame_ = 0
    /\ pc = "submit"
    /\ ~device_lost /\ ~out_of_date
    /\ image_avail[0].state # "unsignaled"
    /\ image_avail[0].frame = 2
    /\ render_finished[0].frame = 0


\* ========================================================================
\* The queue families chosen (find_queue_families)
\* ========================================================================
Families == devices[1].queue_families
\* 0-based indexes of the families, as the code counts them
FamilyIndexes == 0 .. (Len(Families) - 1)
FamiliesSearched == queue_family_indices # << >>
GraphicsFamilies == {i \in FamilyIndexes : Families[i + 1].graphics}
PresentFamilies == {i \in FamilyIndexes : Families[i + 1].present}

\* C22: the assignment find_queue_families returns is complete exactly when
\* some family has the graphics bit and some family can present; an index it
\* holds names a family with that capability, and so is below the number of
\* families.
CompleteIffBothServed ==
    FamiliesSearched =>
       /\ is_complete(queue_family_indices) <=>
             (GraphicsFamilies # {} /\ PresentFamilies # {})
       /\ queue_family_indices.graphics_family.has_value =>
             queue_family_indices.graphics_family.value \in GraphicsFamilies
       /\ queue_family_indices.present_family.has_value =>
             queue_family_indices.present_family.value \in PresentFamilies
       /\ queue_family_indices.graphics_family.has_value <=>
             GraphicsFamilies # {}
       /\ queue_family_indices.present_family.has_value <=>
             PresentFamilies # {}

\* graphics in family 0 only, presentation in family 1 only: two indices
CompleteIffBothServedWitness ==
    /\ FamiliesSearched
    /\ Len(Families) = 2
    /\ GraphicsFamilies = {0}
    /\ PresentFamilies = {1}
    /\ queue_family_indices.graphics_family = Some(0)
    /\ queue_family_indices.present_family = Some(1)

====
